---- MODULE Spec2Model ----
(***************************************************************************)
(* Model of src/main.py (KnowThis AI Detection API): the /analyze request  *)
(* handler analyze_audio, the feature extractor's pitch defaults and the   *)
(* rule based scorer detect_ai_voice.                                      *)
(*                                                                         *)
(* Python floats are IEEE-754 binary64.  The scorer only adds and          *)
(* subtracts the literals 0.5, 0.15, 0.1, 0.05 and compares with 0.1,      *)
(* 0.35, 0.65, 0.95, so every value it handles is a multiple of 2^-58      *)
(* below 2.  A double is modelled exactly as the record [hi, lo] standing  *)
(* for (hi * 2^29 + lo) * 2^-58, and every operation rounds to 53          *)
(* significant bits, ties to even, as the hardware does.                   *)
(***************************************************************************)
EXTENDS Integers, Sequences, FiniteSets, TLC

VARIABLES pc, served, tmp_path, tmpfiles, audio, log, features, result, response

vars == <<pc, served, tmp_path, tmpfiles, audio, log, features, result, response>>

(* ------------------------- binary64 arithmetic ------------------------- *)

RECURSIVE Pow2(_)
Pow2(n) == IF n = 0 THEN 1 ELSE 2 * Pow2(n - 1)

\* One limb of the fixed point representation: 2^29.
Base == Pow2(29)

\* k more bits of the binary expansion of r/den (0 <= r < den):
\* <<the k bits as a number, the remainder left>>.
RECURSIVE FracBits(_, _, _)
FracBits(r, den, k) ==
    IF k = 0 THEN <<0, r>>
    ELSE LET p == FracBits(r, den, k - 1)
             d == 2 * p[2]
         IN  IF d >= den THEN <<2 * p[1] + 1, d - den>> ELSE <<2 * p[1], d>>

\* The spacing of the doubles around a value with high limb hi, in units of
\* 2^-58: 64 in [1,2), 32 in [0.5,1), 16 in [0.25,0.5), ... , 2 in [2^-5,2^-4).
RECURSIVE UlpFrom(_, _)
UlpFrom(hi, k) ==
    IF k = 5 \/ hi >= Base \div Pow2(k) THEN Pow2(6 - k) ELSE UlpFrom(hi, k + 1)

Ulp(hi) == UlpFrom(hi, 0)

\* Round to nearest, ties to even.  sticky: the exact value lies strictly
\* above hi*2^29 + lo (bits beyond 2^-58 were cut off).
RoundNearestEven(hi, lo, sticky) ==
    LET u    == Ulp(hi)
        rem  == lo % u
        q    == lo \div u
        up   == \/ 2 * rem > u
                \/ 2 * rem = u /\ (sticky \/ q % 2 = 1)
        lo2  == (lo - rem) + (IF up THEN u ELSE 0)
    IN  IF hi = 0 /\ lo = 0 THEN [hi |-> 0, lo |-> 0]
        ELSE IF lo2 = Base THEN [hi |-> hi + 1, lo |-> 0]
        ELSE [hi |-> hi, lo |-> lo2]

\* The double a decimal literal n/100 denotes (0 <= n <= 100), as Python's
\* parser produces it: the nearest double to the exact decimal value.
Dec(n) ==
    IF n = 100 THEN [hi |-> Base, lo |-> 0]
    ELSE LET h == FracBits(n, 100, 29)
             l == FracBits(h[2], 100, 29)
         IN  RoundNearestEven(h[1], l[1], l[2] > 0)

\* a + b on doubles.
FAdd(a, b) ==
    LET s == a.lo + b.lo
        c == IF s >= Base THEN 1 ELSE 0
    IN  RoundNearestEven(a.hi + b.hi + c, s - c * Base, FALSE)

\* a - b on doubles, for a >= b.
FSub(a, b) ==
    LET w == IF a.lo < b.lo THEN 1 ELSE 0
    IN  RoundNearestEven(a.hi - b.hi - w, a.lo - b.lo + w * Base, FALSE)

FLess(a, b) == a.hi < b.hi \/ (a.hi = b.hi /\ a.lo < b.lo)

FLeq(a, b) == ~FLess(b, a)

\* Python's min(a, b) and max(a, b): the first argument unless the second
\* is strictly smaller (larger).
FMin(a, b) == IF FLess(b, a) THEN b ELSE a

FMax(a, b) == IF FLess(a, b) THEN b ELSE a

(* --------------------------- detect_ai_voice --------------------------- *)

\* Units of the feature values: mfcc_std in cepstral units, spectral centroid
\* and pitch in Hz, zcr_std and rms_std in thousandths (0.02 is 20).
N_MFCC == 13
MfccLowVariation == 15
MfccHighVariation == 25
SpectralStable == 400
ZcrRegular == 20
RmsUniform == 10
PitchStable == 50

\* The float literals of detect_ai_voice.
Lit_0_5 == Dec(50)
Lit_0_15 == Dec(15)
Lit_0_1 == Dec(10)
Lit_0_05 == Dec(5)
Lit_0_95 == Dec(95)
Lit_0_35 == Dec(35)
Lit_0_65 == Dec(65)

RECURSIVE SumTo(_, _)
SumTo(v, n) == IF n = 0 THEN 0 ELSE v[n] + SumTo(v, n - 1)

SeqSum(v) == SumTo(v, Len(v))

\* np.mean(v) < t and np.mean(v) > t for integer t: the mean is the sum over
\* the length, and rounding a quotient never moves it across a representable t.
MeanLess(v, t) == SeqSum(v) < t * Len(v)

MeanGreater(v, t) == SeqSum(v) > t * Len(v)

R_MfccLow == "MFCC varyasyonu dusuk (yapay ses ozelligi)"
R_MfccHigh == "MFCC varyasyonu yuksek (dogal ses ozelligi)"
R_SpectralStable == "Spektral kararlilik yuksek"
R_SpectralNatural == "Spektral varyasyon dogal seviyede"
R_ZcrRegular == "Ses gecis orani cok duzenli"
R_RmsUniform == "Enerji dagilimi homojen"
R_RmsNatural == "Enerji dagilimi natural"
R_PitchStable == "Perde kararliligi yuksek"
R_Fallback == "Genel ses analizi paternleri"

L_Low == "Dusuk"
L_Medium == "Orta"
L_High == "Yuksek"

\* reasons = [], score = 0.5
StartScore == [score |-> Lit_0_5, reasons |-> <<>>]

Bump(st, delta, reason) ==
    [score |-> FAdd(st.score, delta), reasons |-> Append(st.reasons, reason)]

Lower(st, delta, reason) ==
    [score |-> FSub(st.score, delta), reasons |-> Append(st.reasons, reason)]

Note(st, reason) == [st EXCEPT !.reasons = Append(@, reason)]

MfccRuleSmallBonus(st, f) ==
    IF MeanLess(f.mfcc_std, MfccLowVariation) THEN Bump(st, Lit_0_1, R_MfccLow)
    ELSE IF MeanGreater(f.mfcc_std, MfccHighVariation) THEN Lower(st, Lit_0_1, R_MfccHigh)
    ELSE st

MfccRuleInverted(st, f) ==
    IF MeanGreater(f.mfcc_std, MfccHighVariation) THEN Bump(st, Lit_0_15, R_MfccLow)
    ELSE IF MeanLess(f.mfcc_std, MfccLowVariation) THEN Lower(st, Lit_0_1, R_MfccHigh)
    ELSE st

MfccRule(st, f) ==
    IF MeanLess(f.mfcc_std, MfccLowVariation) THEN Bump(st, Lit_0_15, R_MfccLow)
    ELSE IF MeanGreater(f.mfcc_std, MfccHighVariation) THEN Lower(st, Lit_0_1, R_MfccHigh)
    ELSE st

SpectralRulePenalty(st, f) ==
    IF f.spectral_centroid_std < SpectralStable THEN Bump(st, Lit_0_1, R_SpectralStable)
    ELSE Lower(st, Lit_0_1, R_SpectralNatural)

SpectralRule(st, f) ==
    IF f.spectral_centroid_std < SpectralStable THEN Bump(st, Lit_0_1, R_SpectralStable)
    ELSE Note(st, R_SpectralNatural)

ZcrRule(st, f) ==
    IF f.zcr_std < ZcrRegular THEN Bump(st, Lit_0_1, R_ZcrRegular) ELSE st

RmsRule(st, f) ==
    IF f.rms_std < RmsUniform THEN Bump(st, Lit_0_1, R_RmsUniform)
    ELSE Note(st, R_RmsNatural)

PitchRuleNoVoicedCheck(st, f) ==
    IF f.pitch_std < PitchStable THEN Bump(st, Lit_0_05, R_PitchStable) ELSE st

PitchRule(st, f) ==
    IF f.pitch_std < PitchStable /\ f.pitch_mean > 0
    THEN Bump(st, Lit_0_05, R_PitchStable) ELSE st

ClampNoUpper(score) == FMax(Lit_0_1, score)

\* probability = max(0.1, min(0.95, score))
Clamp(score) == FMax(Lit_0_1, FMin(Lit_0_95, score))

LabelOfInclusive(probability) ==
    IF FLess(probability, Lit_0_35) THEN L_Low
    ELSE IF FLeq(probability, Lit_0_65) THEN L_Medium
    ELSE L_High

LabelOf(probability) ==
    IF FLess(probability, Lit_0_35) THEN L_Low
    ELSE IF FLess(probability, Lit_0_65) THEN L_Medium
    ELSE L_High

\* reasons[:3]
FirstThree(rs) == SubSeq(rs, 1, IF Len(rs) < 3 THEN Len(rs) ELSE 3)

FinalReasonsNoCut(rs) == IF Len(rs) < 3 THEN Append(rs, R_Fallback) ELSE rs

FinalReasonsLastThree(rs) ==
    LET all == IF Len(rs) < 3 THEN Append(rs, R_Fallback) ELSE rs
    IN  SubSeq(all, Len(all) - 2, Len(all))

FinalReasons(rs) == FirstThree(IF Len(rs) < 3 THEN Append(rs, R_Fallback) ELSE rs)

detect_ai_voice(f) ==
    LET st == PitchRule(RmsRule(ZcrRule(SpectralRule(MfccRule(StartScore, f), f), f), f), f)
        probability == Clamp(st.score)
    IN  [probability |-> probability,
         label       |-> LabelOf(probability),
         reasons     |-> FinalReasons(st.reasons)]

(* ------------------------------ inputs --------------------------------- *)

MaxMfccLevel == 6

\* Per-band MFCC standard deviations 10, 15, ..., 5 * MaxMfccLevel.
MfccLevels == {5 * j : j \in 2..MaxMfccLevel}

\* 13-band vectors: uniform ones, and ones whose first six bands differ from
\* the other seven, so that the mean falls on and on both sides of 15 and 25.
MfccStdVectors ==
    {[i \in 1..N_MFCC |-> IF i <= 6 THEN a ELSE b] : a \in MfccLevels, b \in MfccLevels}

SpectralStdValues == {300, 400, 600}
ZcrStdValues == {10, 20, 50}
RmsStdValues == {5, 10, 50}
PitchStdValues == {20, 50, 80}
PitchMeanValues == {0, 150}

FeatureSets ==
    [mfcc_std : MfccStdVectors, spectral_centroid_std : SpectralStdValues,
     zcr_std : ZcrStdValues, rms_std : RmsStdValues,
     pitch_std : PitchStdValues, pitch_mean : PitchMeanValues]

NoFeatures == [none |-> TRUE]
NoResult == [none |-> TRUE]
NoAudio == [none |-> TRUE]

(* ----------- the scorer alone: detect_ai_voice on every FeatureSet ------ *)

ScoreInit ==
    /\ pc = "score"
    /\ features \in FeatureSets
    /\ result = NoResult
    /\ served = 0 /\ tmp_path = 0 /\ tmpfiles = {} /\ audio = NoAudio
    /\ log = {} /\ response = 0

ScoreCall ==
    /\ pc = "score"
    /\ result' = detect_ai_voice(features)
    /\ pc' = "scored"
    /\ UNCHANGED <<served, tmp_path, tmpfiles, audio, log, features, response>>

ScoreNext == ScoreCall

ScoreSpec == ScoreInit /\ [][ScoreNext]_vars

Scored == pc = "scored"

(* ----------------------- extract_audio_features ----------------------- *)

\* The pitch statistics of the voiced frames: their mean and standard
\* deviation when some frame has a positive pitch, 0 and 0 otherwise.
PitchStats(voiced, mean, std) ==
    IF voiced THEN [pitch_mean |-> mean, pitch_std |-> std]
    ELSE [pitch_mean |-> 0, pitch_std |-> 0]

\* The feature dictionary built from the time statistics m of the librosa
\* descriptors and the pitch statistics p.
extract_audio_features(m, p) ==
    [mfcc_std |-> m.mfcc_std, spectral_centroid_std |-> m.spectral_centroid_std,
     zcr_std |-> m.zcr_std, rms_std |-> m.rms_std,
     pitch_std |-> p.pitch_std, pitch_mean |-> p.pitch_mean]

Measurements ==
    [mfcc_std : MfccStdVectors, spectral_centroid_std : SpectralStdValues,
     zcr_std : ZcrStdValues, rms_std : RmsStdValues]

PitchMeasurements ==
    {PitchStats(v, mean, std) :
        v \in BOOLEAN, mean \in PitchMeanValues \ {0}, std \in PitchStdValues \cup {0}}

(* ------------------------------ analyze_audio -------------------------- *)

TargetSr == 22050
MaxDurationSec == 10

MaxRequests == 2
MaxSeconds == 11

SampleRates == {8000, TargetSr, 44100, 48000}

\* Frame counts of the uploaded recordings: whole seconds at the native rate,
\* and one frame more.
FrameCounts(rate) ==
    {secs * rate + e : secs \in {0, 1, MaxDurationSec, MaxSeconds}, e \in {0, 1}}

RECURSIVE Gcd(_, _)
Gcd(a, b) == IF b = 0 THEN a ELSE Gcd(b, a % b)

\* librosa.resample: ceil(n * target_sr / orig_sr) samples.
ResampledLen(n, orig_sr, target_sr) ==
    LET g   == Gcd(orig_sr, target_sr)
        num == target_sr \div g
        den == orig_sr \div g
    IN  (n * num + den - 1) \div den

Min(a, b) == IF a < b THEN a ELSE b

Init ==
    /\ pc = "idle"
    /\ served = 0
    /\ tmp_path = 0
    /\ tmpfiles = {}
    /\ audio = NoAudio
    /\ log = {}
    /\ features = NoFeatures
    /\ result = NoResult
    /\ response = 0

\* A request arrives.  An unsupported extension is refused with 400 before
\* anything is created; otherwise NamedTemporaryFile(delete=False) creates
\* the file and the handler awaits the upload.
Receive ==
    /\ pc \in {"idle", "done"}
    /\ served < MaxRequests
    /\ served' = served + 1
    /\ tmp_path' = 0
    /\ audio' = NoAudio
    /\ log' = {}
    /\ features' = NoFeatures
    /\ result' = NoResult
    /\ \/ /\ response' = 400
          /\ pc' = "done"
          /\ UNCHANGED tmpfiles
       \/ /\ response' = 0
          /\ pc' = "upload"
          /\ tmpfiles' = tmpfiles \cup {served + 1}

\* content = await file.read(), inside the with block and before the try:
\* an exception leaves through the with statement, which closes the file
\* and, with delete=False, keeps it.
ReadUpload ==
    /\ pc = "upload"
    /\ \/ /\ pc' = "write"
          /\ UNCHANGED response
       \/ /\ pc' = "done"
          /\ response' = 500
    /\ UNCHANGED <<served, tmp_path, tmpfiles, audio, log, features, result>>

\* tmp_file.write(content); tmp_path = tmp_file.name
WriteTmp ==
    /\ pc = "write"
    /\ \/ /\ pc' = "sf_read"
          /\ tmp_path' = served
          /\ UNCHANGED response
       \/ /\ pc' = "done"
          /\ response' = 500
          /\ UNCHANGED tmp_path
    /\ UNCHANGED <<served, tmpfiles, audio, log, features, result>>

\* audio, sr = sf.read(tmp_path)
SfRead ==
    /\ pc = "sf_read"
    /\ \/ \E c \in {1, 2}, rate \in SampleRates :
            \E n \in FrameCounts(rate) :
              /\ audio' = [channels |-> c, sr |-> rate, len |-> n]
              /\ log' = log \cup {"audio_loaded"}
              /\ pc' = "mono"
       \/ /\ log' = log \cup {"soundfile_error"}
          /\ pc' = "fallback"
          /\ UNCHANGED audio
    /\ UNCHANGED <<served, tmp_path, tmpfiles, features, result, response>>

\* if len(audio.shape) > 1: audio = np.mean(audio, axis=1)
MonoMix ==
    /\ pc = "mono"
    /\ audio' = IF audio.channels > 1 THEN [audio EXCEPT !.channels = 1] ELSE audio
    /\ pc' = "resample"
    /\ UNCHANGED <<served, tmp_path, tmpfiles, log, features, result, response>>

\* if sr != 22050: audio = librosa.resample(...); sr = 22050.  An exception
\* in the resampler is caught by the inner except: the mono mix is kept in
\* audio, sr is still the native rate.
Resample ==
    /\ pc = "resample"
    /\ \/ /\ audio.sr # TargetSr
          /\ audio' = [audio EXCEPT !.len = ResampledLen(audio.len, audio.sr, TargetSr),
                                    !.sr = TargetSr]
          /\ log' = log \cup {"resampled"}
          /\ pc' = "trim"
       \/ /\ audio.sr # TargetSr
          /\ log' = log \cup {"soundfile_error"}
          /\ pc' = "fallback"
          /\ UNCHANGED audio
       \/ /\ audio.sr = TargetSr
          /\ pc' = "trim"
          /\ UNCHANGED <<audio, log>>
    /\ UNCHANGED <<served, tmp_path, tmpfiles, features, result, response>>

\* if len(audio) > 22050 * 10: audio = audio[:22050 * 10]
Trim ==
    /\ pc = "trim"
    /\ \/ /\ audio.len > TargetSr * MaxDurationSec
          /\ audio' = [audio EXCEPT !.len = TargetSr * MaxDurationSec]
          /\ log' = log \cup {"trimmed"}
       \/ /\ audio.len <= TargetSr * MaxDurationSec
          /\ UNCHANGED <<audio, log>>
    /\ pc' = "extract"
    /\ UNCHANGED <<served, tmp_path, tmpfiles, features, result, response>>

\* The outer except and the finally: HTTP 500, and the temporary file is
\* removed if it exists.
Fail500 ==
    /\ response' = 500
    /\ tmpfiles' = tmpfiles \ {tmp_path}
    /\ audio' = NoAudio
    /\ pc' = "done"

LibrosaLoadWholeFile(rate, n) ==
    [channels |-> 1, sr |-> TargetSr, len |-> ResampledLen(n, rate, TargetSr)]

\* librosa.load(path, sr=22050, duration=10) of a recording of n frames at
\* the native rate: at most duration * rate frames are read, mixed to mono
\* and resampled to sr.
LibrosaLoad(rate, n) ==
    [channels |-> 1, sr |-> TargetSr,
     len |-> ResampledLen(Min(n, MaxDurationSec * rate), rate, TargetSr)]

\* except Exception: audio, sr = librosa.load(tmp_path, sr=22050, duration=10).
\* The recording is the one sf.read saw, when it could read it.
LibrosaFallback ==
    /\ pc = "fallback"
    /\ \/ /\ \E rate \in SampleRates :
               \E n \in FrameCounts(rate) :
                 /\ audio # NoAudio => rate = audio.sr /\ n = audio.len
                 /\ audio' = LibrosaLoad(rate, n)
          /\ log' = log \cup {"librosa_loaded"}
          /\ pc' = "extract"
          /\ UNCHANGED <<tmpfiles, response>>
       \/ /\ Fail500
          /\ UNCHANGED log
    /\ UNCHANGED <<served, tmp_path, features, result>>

\* features = extract_audio_features(audio, sr); detect_ai_voice(features);
\* return; finally.  No await separates them.
ExtractAndScore ==
    /\ pc = "extract"
    /\ \/ /\ \E m \in Measurements, p \in PitchMeasurements :
               /\ features' = extract_audio_features(m, p)
               /\ result' = detect_ai_voice(features')
          /\ response' = 200
          /\ tmpfiles' = tmpfiles \ {tmp_path}
          /\ audio' = NoAudio
          /\ pc' = "done"
       \/ /\ Fail500
          /\ UNCHANGED <<features, result>>
    /\ UNCHANGED <<served, tmp_path, log>>

Next ==
    \/ Receive
    \/ ReadUpload
    \/ WriteTmp
    \/ SfRead
    \/ MonoMix
    \/ Resample
    \/ Trim
    \/ LibrosaFallback
    \/ ExtractAndScore

Spec == Init /\ [][Next]_vars

(* C8: whenever a request has created a temporary file, the file no longer
   exists once the request has finished, on every exit path, a failure
   while reading the upload or writing it to the file included. *)
C8_TmpFileRemoved ==
    pc = "done" /\ response # 400 => served \notin tmpfiles

(* C9: on every path by which analyze_audio reaches extract_audio_features
   the buffer is mono, its sample rate is 22050 Hz and it holds at most
   22050 * 10 samples; a failure part-way through the soundfile path never
   lets a partially normalized buffer reach extraction. *)
C9_NormalizedBeforeExtraction ==
    pc = "extract" =>
        /\ audio.channels = 1
        /\ audio.sr = 22050
        /\ audio.len <= 22050 * 10

\* Extraction is reached through the fallback after sf.read had succeeded
\* and a later step of the soundfile path failed.
C9_Witness ==
    /\ pc = "extract"
    /\ {"audio_loaded", "soundfile_error", "librosa_loaded"} \subseteq log
    /\ audio.len = 22050 * 10

(* --------------- what the specification says of the scorer ------------- *)

ScenarioA ==
    [mfcc_std |-> [i \in 1..N_MFCC |-> 10], spectral_centroid_std |-> 300,
     zcr_std |-> 10, rms_std |-> 5, pitch_std |-> 20, pitch_mean |-> 150]

ScenarioB ==
    [mfcc_std |-> [i \in 1..N_MFCC |-> 30], spectral_centroid_std |-> 600,
     zcr_std |-> 50, rms_std |-> 50, pitch_std |-> 80, pitch_mean |-> 0]

\* The adjustment of rule i on f, in hundredths, as section 4.2 lists them.
RuleDelta(i, f) ==
    CASE i = 1 -> IF MeanLess(f.mfcc_std, 15) THEN 15
                  ELSE IF MeanGreater(f.mfcc_std, 25) THEN -10 ELSE 0
      [] i = 2 -> IF f.spectral_centroid_std < 400 THEN 10 ELSE 0
      [] i = 3 -> IF f.zcr_std < 20 THEN 10 ELSE 0
      [] i = 4 -> IF f.rms_std < 10 THEN 10 ELSE 0
      [] i = 5 -> IF f.pitch_std < 50 /\ f.pitch_mean > 0 THEN 5 ELSE 0

\* The reason rule i emits on f, as a sequence of at most one string.
RuleReason(i, f) ==
    CASE i = 1 -> IF MeanLess(f.mfcc_std, 15) THEN <<R_MfccLow>>
                  ELSE IF MeanGreater(f.mfcc_std, 25) THEN <<R_MfccHigh>> ELSE <<>>
      [] i = 2 -> IF f.spectral_centroid_std < 400 THEN <<R_SpectralStable>>
                  ELSE <<R_SpectralNatural>>
      [] i = 3 -> IF f.zcr_std < 20 THEN <<R_ZcrRegular>> ELSE <<>>
      [] i = 4 -> IF f.rms_std < 10 THEN <<R_RmsUniform>> ELSE <<R_RmsNatural>>
      [] i = 5 -> IF f.pitch_std < 50 /\ f.pitch_mean > 0 THEN <<R_PitchStable>> ELSE <<>>

EmittedReasons(f) ==
    RuleReason(1, f) \o RuleReason(2, f) \o RuleReason(3, f) \o RuleReason(4, f)
        \o RuleReason(5, f)

\* The rule a reason belongs to; the fallback comes after all rules.
RuleOf(r) ==
    CASE r \in {R_MfccLow, R_MfccHigh} -> 1
      [] r \in {R_SpectralStable, R_SpectralNatural} -> 2
      [] r = R_ZcrRegular -> 3
      [] r \in {R_RmsUniform, R_RmsNatural} -> 4
      [] r = R_PitchStable -> 5
      [] OTHER -> 6

\* 0.5 + the deltas of the rules that fire, in hundredths, in exact arithmetic.
ExactTotal(f) ==
    50 + RuleDelta(1, f) + RuleDelta(2, f) + RuleDelta(3, f) + RuleDelta(4, f)
       + RuleDelta(5, f)

ClampHundredths(n) == IF n < 10 THEN 10 ELSE IF n > 95 THEN 95 ELSE n

\* The double nearest to n/100, for every n the totals can take.
DecTable == [n \in 0..100 |-> Dec(n)]

\* The accumulator after the rules were applied in the order o (a sequence
\* of rule numbers), in binary64.
ApplyDelta(s, d) ==
    IF d > 0 THEN FAdd(s, DecTable[d]) ELSE IF d < 0 THEN FSub(s, DecTable[-d]) ELSE s

\* The deltas of the five rules on f, by rule number.
RuleDeltas(f) == [i \in 1..5 |-> RuleDelta(i, f)]

RECURSIVE AccumulateIn(_, _, _)
AccumulateIn(o, k, ds) ==
    IF k = 0 THEN DecTable[50]
    ELSE ApplyDelta(AccumulateIn(o, k - 1, ds), ds[o[k]])

RuleOrder == <<1, 2, 3, 4, 5>>

RuleOrders == Permutations(1..5)

\* The next double above a.
NextUp(a) ==
    LET l == a.lo + Ulp(a.hi)
    IN  IF l >= Base THEN [hi |-> a.hi + 1, lo |-> l - Base] ELSE [hi |-> a.hi, lo |-> l]

\* a and b are the same double or neighbouring doubles.
WithinOneUlp(a, b) == a = b \/ a = NextUp(b) \/ b = NextUp(a)

AllRulesFire(f) ==
    /\ RuleDelta(1, f) = 15 /\ RuleDelta(2, f) = 10 /\ RuleDelta(3, f) = 10
    /\ RuleDelta(4, f) = 10 /\ RuleDelta(5, f) = 5

(* C1: for every FeatureSet the probability detect_ai_voice returns lies in
   the closed interval [0.1, 0.95], whatever the accumulator reached. *)
C1_ProbabilityInRange ==
    Scored => /\ FLeq(Lit_0_1, result.probability)
              /\ FLeq(result.probability, Lit_0_95)

\* All five bonuses fired (the accumulator is 1.0) and 0.95 was returned.
C1_Witness ==
    Scored /\ AllRulesFire(features) /\ result.probability = Lit_0_95

(* C2: for every FeatureSet the reasons list detect_ai_voice returns has
   length exactly 3. *)
C2_ReasonsLengthThree == Scored => Len(result.reasons) = 3

\* Only the two unconditional rules emitted a reason: the fallback fills up.
C2_Witness ==
    Scored /\ Len(EmittedReasons(features)) = 2 /\ Len(result.reasons) = 3

(* C3 as stated: the probability equals clamp(0.5 + the sum of the deltas of
   the rules that fire, 0.1, 0.95), the total does not depend on the order
   in which the rules are applied, scenario A gives 0.95 and High, scenario B
   gives 0.40 and Medium. *)
C3_ExactTotalAnyOrder ==
    Scored =>
      LET ds == RuleDeltas(features) IN
        /\ result.probability = DecTable[ClampHundredths(ExactTotal(features))]
        /\ \A o \in RuleOrders : AccumulateIn(o, 5, ds) = AccumulateIn(RuleOrder, 5, ds)
        /\ features = ScenarioA =>
               result.probability = DecTable[95] /\ result.label = L_High
        /\ features = ScenarioB =>
               result.probability = DecTable[40] /\ result.label = L_Medium

(* C3 amended: the probability is the clamp of the binary64 total accumulated
   in rule order, which is the double nearest to 0.5 + the sum of the deltas
   or one of its two neighbours; applied in any other order the rules give a
   total that is again that double or a neighbour of it; scenario A gives
   exactly 0.95 and High, scenario B exactly 0.40 and Medium. *)
C3_TotalWithinOneUlp ==
    Scored =>
      LET ds == RuleDeltas(features)
          total == DecTable[ExactTotal(features)]
      IN
        /\ result.probability =
               FMax(DecTable[10], FMin(DecTable[95], AccumulateIn(RuleOrder, 5, ds)))
        /\ WithinOneUlp(result.probability,
                        DecTable[ClampHundredths(ExactTotal(features))])
        /\ \A o \in RuleOrders : WithinOneUlp(AccumulateIn(o, 5, ds), total)
        /\ features = ScenarioA =>
               result.probability = DecTable[95] /\ result.label = L_High
        /\ features = ScenarioB =>
               result.probability = DecTable[40] /\ result.label = L_Medium

\* The three +0.10 rules alone: the exact total is 0.80 and the probability
\* returned is the double below 0.8.
C3_Witness ==
    /\ Scored
    /\ ExactTotal(features) = 80 /\ RuleDelta(1, features) = 0
    /\ result.probability # DecTable[80]
    /\ NextUp(result.probability) = DecTable[80]

(* C4: the label is a function of the returned probability alone: Low
   exactly when probability < 0.35, Medium exactly when 0.35 <= probability
   < 0.65, High exactly when probability >= 0.65; 0.35 maps to Medium and
   0.65 to High. *)
C4_LabelFromProbability ==
    /\ Scored =>
        /\ result.label = L_Low <=> FLess(result.probability, DecTable[35])
        /\ result.label = L_Medium <=>
               /\ FLeq(DecTable[35], result.probability)
               /\ FLess(result.probability, DecTable[65])
        /\ result.label = L_High <=> FLeq(DecTable[65], result.probability)
    /\ LabelOf(DecTable[35]) = L_Medium
    /\ LabelOf(DecTable[65]) = L_High
    /\ LabelOf(DecTable[34]) = L_Low
    /\ LabelOf(DecTable[64]) = L_Medium

\* 0.5 + 0.15 is exactly the double 0.65, and it is labelled High.
C4_Witness ==
    Scored /\ result.probability = DecTable[65] /\ result.label = L_High

(* C5: the reasons returned are the reasons of rules 1 to 5 in rule order,
   followed by the fallback reason only when fewer than 3 rule reasons were
   emitted, cut to the first 3; the fallback is in the result iff fewer than
   3 rule reasons fired; no reason precedes the reason of an earlier rule;
   scenario B gives [high MFCC variation, natural spectral variation,
   natural energy distribution]. *)
C5_ReasonsInRuleOrder ==
    Scored =>
        LET em == EmittedReasons(features)
            rs == result.reasons
        IN  /\ rs = FirstThree(IF Len(em) < 3 THEN em \o <<R_Fallback>> ELSE em)
            /\ (\E i \in 1..Len(rs) : rs[i] = R_Fallback) <=> Len(em) < 3
            /\ \A i, j \in 1..Len(rs) : i < j => RuleOf(rs[i]) < RuleOf(rs[j])
            /\ features = ScenarioB =>
                   rs = <<R_MfccHigh, R_SpectralNatural, R_RmsNatural>>

C5_Witness ==
    /\ Scored /\ features = ScenarioB
    /\ result.reasons = <<R_MfccHigh, R_SpectralNatural, R_RmsNatural>>

\* detect_ai_voice with the pitch rule removed.
DetectWithoutPitchRule(f) ==
    LET st == RmsRule(ZcrRule(SpectralRule(MfccRule(StartScore, f), f), f), f)
        probability == Clamp(st.score)
    IN  [probability |-> probability,
         label       |-> LabelOf(probability),
         reasons     |-> FinalReasons(st.reasons)]

(* C6: with pitch_mean = 0 the pitch-stability bonus is never applied and
   its reason never emitted, for every pitch_std: the result is the result
   of the same FeatureSet with the pitch rule removed. *)
C6_ZeroPitchNoBonus ==
    Scored /\ features.pitch_mean = 0 =>
        /\ result = DetectWithoutPitchRule(features)
        /\ \A i \in 1..Len(result.reasons) : result.reasons[i] # R_PitchStable

\* pitch_mean = 0 with a pitch_std under the threshold, and only two other
\* reasons, so that a pitch reason would have been kept.
C6_Witness ==
    /\ Scored /\ features.pitch_mean = 0 /\ features.pitch_std < PitchStable
    /\ result.reasons[3] = R_Fallback

(* C7: probability is non-increasing in the MFCC variation: of two
   FeatureSets that differ only in the average MFCC standard deviation, the
   one with the lower average gets a probability at least the other's. *)
C7_MonotoneInMfcc ==
    Scored =>
        \A v \in MfccStdVectors :
            SeqSum(v) < SeqSum(features.mfcc_std) =>
                FLeq(result.probability,
                     detect_ai_voice([features EXCEPT !.mfcc_std = v]).probability)

\* Average 20, and the same features with average 10 score strictly higher.
C7_Witness ==
    /\ Scored /\ features.mfcc_std = [i \in 1..N_MFCC |-> 20]
    /\ FLess(result.probability,
             detect_ai_voice([features EXCEPT !.mfcc_std = [i \in 1..N_MFCC |-> 10]]).probability)

(* C10: the only negative adjustment is the -0.10 of the MFCC rule, so the
   probability is at least 0.40, the label Low is never returned and the
   lower clamp bound 0.1 is never the returned value. *)
C10_NeverLow ==
    Scored =>
        /\ FLeq(DecTable[40], result.probability)
        /\ result.label # L_Low
        /\ result.probability # DecTable[10]

\* The minimum is attained: the MFCC penalty alone.
C10_Witness ==
    Scored /\ ExactTotal(features) = 40 /\ result.probability = DecTable[40]

====
